---- MODULE Spec2Model ----
(***************************************************************************)
(* Model of the momentum scanner of src/app.py: the shared_data dictionary *)
(* (lines 17-28), the websocket callback on_message (lines 52-101) that    *)
(* ingests one tick, the Streamlit script (lines 130-186) that writes the  *)
(* configuration, starts the background thread and reads the ledgers       *)
(* without taking data_lock, and the thread's start_websocket (lines       *)
(* 104-127).  data_lock (line 31) is the lock of the script run that       *)
(* started the thread: start_websocket and on_message are that run's       *)
(* functions and share it.                                                 *)
(*                                                                         *)
(* Time is the wall clock in whole seconds since midnight of day 0.        *)
(* Prices are integers in an arbitrary unit (the percentage change does    *)
(* not depend on the unit).  The threshold data["percent"] is kept in      *)
(* tenths of a percent (1.0 % is 10), the step of the number_input of      *)
(* line 140.  The percentage change is compared exactly (cross-multiplied);*)
(* on the prices and thresholds used below the IEEE double computation of  *)
(* line 80 gives the same comparisons and the same two-decimal string.     *)
(***************************************************************************)
EXTENDS Integers, Sequences, FiniteSets, TLC

VARIABLES
    clock,      \* the wall clock, what datetime.datetime.now() returns
    data,       \* st.session_state.shared_data, lines 18-28
    lock,       \* data_lock, line 31: "free" or the thread holding it
    pc,         \* position of the websocket thread inside on_message
    message,    \* on_message's parameter `message`
    lookback,   \* on_message's local `lookback`, line 54
    percent,    \* on_message's local `percent`, line 55
    now,        \* on_message's local `now`, line 62
    raised,     \* TRUE when the last on_message call ended in ZeroDivisionError
    calls,      \* number of on_message calls so far
    emitted,    \* history variable: every alert inserted so far, oldest first
    ui_pc,      \* position of the Streamlit script run
    threads,    \* position of each start_websocket thread started, line 154
    held        \* history variable: the (lookback, percent) pairs the dictionary
                \* has held, recorded by the configuration writes of SpecCfg

vars == <<clock, data, lock, pc, message, lookback, percent, now, raised,
          calls, emitted, ui_pc, threads, held>>

wsVars == <<message, lookback, percent, now>>
appVars == <<threads, held>>

----------------------------------------------------------------------------
(* Program constants *)

LedgerCap == 50
DefaultLookback == 60
DefaultPercent == 10
MinSamples == 2
DaySeconds == 24 * 60 * 60

(* Bounds of the model *)

MaxCalls == 3

(* Inputs of the general specification *)

Symbols == {"X", "Y"}
Prices == {-100, 0, 99, 100, 101}
Deltas == {0, 24}
StartTimes == {36}
LookbackValues == {30, 60}
PercentValues == {10, 20}

----------------------------------------------------------------------------
(* Messages handed to on_message by the websocket library *)

Tick(sym, ltp) ==
    [isdict |-> TRUE, has_symbol |-> TRUE, symbol |-> sym,
     has_ltp |-> TRUE, ltp |-> ltp]

NotADict == [isdict |-> FALSE, has_symbol |-> FALSE, symbol |-> "X",
             has_ltp |-> FALSE, ltp |-> 0]
NoSymbol == [isdict |-> TRUE, has_symbol |-> FALSE, symbol |-> "X",
             has_ltp |-> TRUE, ltp |-> 100]
NoPrice(sym) == [isdict |-> TRUE, has_symbol |-> TRUE, symbol |-> sym,
                 has_ltp |-> FALSE, ltp |-> 0]

Dropped == {NotADict, NoSymbol} \cup {NoPrice(s) : s \in Symbols}
Ticks == {Tick(s, p) : s \in Symbols, p \in Prices}
Messages == Ticks \cup Dropped

\* the test of line 60 left out
Accepted_NoPriceTest(m) == m.isdict /\ m.has_symbol

\* lines 57-60: the message is a dict with a symbol and its ltp is not None
Accepted(m) == m.isdict /\ m.has_symbol /\ m.has_ltp

----------------------------------------------------------------------------
(* Time formatting *)

\* a minute stamp that carries the date
HHMM_Dated(t) == t \div 60

\* now.strftime('%H:%M'), line 81: the minute of the day, no date
HHMM(t) == (t \div 60) % 1440

\* now.strftime('%H:%M:%S'), line 85: the second of the day, no date
HHMMSS(t) == t % DaySeconds

\* a key without the symbol
IntervalKey_NoSymbol(sym, t) == <<"X", HHMM(t)>>

\* a key that also carries the seconds
IntervalKey_Seconds(sym, t) == <<sym, HHMMSS(t)>>

\* line 81: f"{sym}_{now.strftime('%H:%M')}"
IntervalKey(sym, t) == <<sym, HHMM(t)>>

----------------------------------------------------------------------------
(* Percentage change, line 80: ((ltp - start_price) / start_price) * 100 *)

\* line 80 divides by start_price: ZeroDivisionError when it is 0
DivisionFaults(start_price) == start_price = 0

\* a strict comparison in place of >=
ReachesUp_Strict(ltp, start_price, pct) ==
    IF start_price > 0
    THEN (ltp - start_price) * 1000 > pct * start_price
    ELSE (ltp - start_price) * 1000 < pct * start_price

\* line 91: pct_chg >= percent, percent in tenths of a percent
ReachesUp(ltp, start_price, pct) ==
    IF start_price > 0
    THEN (ltp - start_price) * 1000 >= pct * start_price
    ELSE (ltp - start_price) * 1000 <= pct * start_price

\* line 94: pct_chg <= -percent
ReachesDown(ltp, start_price, pct) ==
    IF start_price > 0
    THEN (ltp - start_price) * 1000 <= (-pct) * start_price
    ELSE (ltp - start_price) * 1000 >= (-pct) * start_price

\* n / d rounded to the nearest integer, ties to even, d # 0
RoundDiv(n, d) ==
    LET nn == IF d < 0 THEN -n ELSE n
        dd == IF d < 0 THEN -d ELSE d
        q == nn \div dd
        r == nn - q * dd
    IN  IF 2 * r < dd THEN q
        ELSE IF 2 * r > dd THEN q + 1
        ELSE IF q % 2 = 0 THEN q ELSE q + 1

\* line 87: f"{pct_chg:.2f}%", as hundredths of a percent
MoveText(ltp, start_price) == RoundDiv((ltp - start_price) * 10000, start_price)

\* lines 84-89
Alert(sym, ltp, start_price, t) ==
    [Time |-> HHMMSS(t), Symbol |-> sym,
     Move |-> MoveText(ltp, start_price), LTP |-> ltp]

----------------------------------------------------------------------------
(* The statements of on_message's critical section, as functions of the   *)
(* shared dictionary d                                                     *)

\* lines 66-67
AppendSample(d, sym, ltp, t) ==
    LET h == d.history
        old == IF sym \in DOMAIN h THEN h[sym] ELSE <<>>
    IN  [d EXCEPT !.history =
            [s \in (DOMAIN h) \cup {sym} |->
                IF s = sym THEN Append(old, <<t, ltp>>) ELSE h[s]]]

\* a cutoff taken in minutes instead of seconds
Cutoff_Minutes(t, lb) == t - 60 * lb

\* line 70
Cutoff(t, lb) == t - lb

InWindow(sample, cutoff) == sample[1] >= cutoff

\* line 71
TrimSeq(seq, cutoff) == SelectSeq(seq, LAMBDA sample : InWindow(sample, cutoff))

\* lines 70-71
TrimHistory(d, sym, t, lb) ==
    [d EXCEPT !.history[sym] = TrimSeq(@, Cutoff(t, lb))]

\* two samples taken as enough
EnoughSamples_Two(d, sym) == Len(d.history[sym]) >= MinSamples

\* line 74
EnoughSamples(d, sym) == Len(d.history[sym]) > MinSamples

\* lines 75-76
StartOf(d, sym) == d.history[sym][1]
Elapsed(d, sym, t) == t - StartOf(d, sym)[1]

\* a gate at 20 % of the window instead of 80 %
Covered_Fifth(elapsed, lb) == 5 * elapsed >= lb

\* line 79: elapsed >= lookback * 0.8
Covered(elapsed, lb) == 5 * elapsed >= 4 * lb

\* lines 74-79: the percentage change is computed
Evaluates(d, sym, t, lb) ==
    EnoughSamples(d, sym) /\ Covered(Elapsed(d, sym, t), lb)

\* no dedup test
Unseen_Always(d, sym, t) == TRUE

\* line 83
Unseen(d, sym, t) == IntervalKey(sym, t) \notin d.intervals

\* lines 91-96: "positive", "negative" or "none"
Polarity(ltp, start_price, pct) ==
    IF ReachesUp(ltp, start_price, pct) THEN "positive"
    ELSE IF ReachesDown(ltp, start_price, pct) THEN "negative"
    ELSE "none"

\* lines 92 and 95: list.insert(0, alert)
InsertFront(seq, a) == <<a>> \o seq

InsertAlert(d, pol, a) ==
    IF pol = "positive" THEN [d EXCEPT !.positive = InsertFront(@, a)]
    ELSE IF pol = "negative" THEN [d EXCEPT !.negative = InsertFront(@, a)]
    ELSE d

\* the key recorded for every evaluated tick, alert or not
AddInterval_Always(d, pol, sym, t) ==
    [d EXCEPT !.intervals = @ \cup {<<sym, HHMM(t)>>}]

\* lines 93 and 96
AddInterval(d, pol, sym, t) ==
    IF pol = "none" THEN d
    ELSE [d EXCEPT !.intervals = @ \cup {IntervalKey(sym, t)}]

\* seq[-50:], the last n entries instead of the first n
FirstN_Last(seq, n) ==
    IF Len(seq) <= n THEN seq ELSE SubSeq(seq, Len(seq) - n + 1, Len(seq))

\* seq[:50]
FirstN(seq, n) == IF Len(seq) <= n THEN seq ELSE SubSeq(seq, 1, n)

\* line 99
TruncatePositive(d) == [d EXCEPT !.positive = FirstN(@, LedgerCap)]

\* line 100
TruncateNegative(d) == [d EXCEPT !.negative = FirstN(@, LedgerCap)]

\* line 101
SetLastUpdate(d, t) == [d EXCEPT !.last_update = t]

\* lines 99-101, the end of the critical section
Finish(d, t) == SetLastUpdate(TruncateNegative(TruncatePositive(d)), t)

\* lines 80-96 for a tick that passed the gates of lines 74 and 79 and whose
\* start price is not 0: "positive", "negative" or "none"
Decision(d, sym, ltp, t, pct) ==
    IF Unseen(d, sym, t) THEN Polarity(ltp, StartOf(d, sym)[2], pct) ELSE "none"

\* lines 84-96
Record(d, sym, ltp, t, pol) ==
    AddInterval(InsertAlert(d, pol, Alert(sym, ltp, StartOf(d, sym)[2], t)),
                pol, sym, t)

\* lines 64-101, the whole critical section for an accepted message:
\* the dictionary it leaves, whether it raised, and the alert's polarity
Ingest(d, sym, ltp, t, lb, pct) ==
    LET d2 == TrimHistory(AppendSample(d, sym, ltp, t), sym, t, lb)
    IN  IF ~Evaluates(d2, sym, t, lb)
        THEN [data |-> Finish(d2, t), raised |-> FALSE, pol |-> "none"]
        ELSE IF DivisionFaults(StartOf(d2, sym)[2])
        THEN [data |-> d2, raised |-> TRUE, pol |-> "none"]
        ELSE LET pol == Decision(d2, sym, ltp, t, pct)
             IN  [data |-> Finish(Record(d2, sym, ltp, t, pol), t),
                  raised |-> FALSE, pol |-> pol]

\* history variable: one entry per inserted alert
Emit(log, sym, t, pol) ==
    IF pol = "none" THEN log
    ELSE Append(log, [sym |-> sym, at |-> t, pol |-> pol])

----------------------------------------------------------------------------
(* Initial state: lines 17-31, the script's first run at time clock *)

NoMessage == NotADict

InitData(t) ==
    [positive |-> <<>>, negative |-> <<>>, history |-> [s \in {} |-> <<>>],
     intervals |-> {}, connected |-> FALSE, symbols_count |-> 0,
     lookback |-> DefaultLookback, percent |-> DefaultPercent,
     last_update |-> t]

Init ==
    /\ clock \in StartTimes
    /\ data = InitData(clock)
    /\ lock = "free"
    /\ pc = "idle"
    /\ message = NoMessage
    /\ lookback = DefaultLookback
    /\ percent = DefaultPercent
    /\ now = clock
    /\ raised = FALSE
    /\ calls = 0
    /\ emitted = <<>>
    /\ ui_pc = "settings"
    /\ threads = <<>>
    /\ held = {<<DefaultLookback, DefaultPercent>>}

----------------------------------------------------------------------------
(* The configuration reads that open on_message *)

\* the default of line 25 instead of the live value
ReadLookback_Default(d) == DefaultLookback

\* line 54
ReadLookback(d) == d.lookback

\* line 55
ReadPercent(d) == d.percent

----------------------------------------------------------------------------
(* Whole operations, each taken as one step *)

\* on_message(message, data), lines 52-101, for a message that arrives
\* delta seconds after the previous reading of the clock
OnMessageCall(m, delta) ==
    /\ pc = "idle"
    /\ lock = "free"
    /\ calls' = calls + 1
    /\ message' = m
    /\ lookback' = ReadLookback(data)
    /\ percent' = ReadPercent(data)
    /\ IF Accepted(m)
       THEN LET t == clock + delta
                r == Ingest(data, m.symbol, m.ltp, t, lookback', percent')
            IN  /\ clock' = t
                /\ now' = t
                /\ data' = r.data
                /\ raised' = r.raised
                /\ emitted' = Emit(emitted, m.symbol, t, r.pol)
       ELSE /\ delta = 0
            /\ raised' = FALSE
            /\ UNCHANGED <<clock, now, data, emitted>>
    /\ UNCHANGED <<lock, pc, ui_pc, appVars>>

OnMessage ==
    /\ calls < MaxCalls
    /\ \E m \in Messages, delta \in Deltas : OnMessageCall(m, delta)

\* lines 137-142 of one script run: the sidebar's values are written
Settings(lb, pct) ==
    /\ ui_pc = "settings"
    /\ data.lookback # lb \/ data.percent # pct
    /\ data' = [data EXCEPT !.lookback = lb, !.percent = pct]
    /\ UNCHANGED <<clock, lock, pc, wsVars, raised, calls, emitted, ui_pc,
                   appVars>>

SetConfig == \E lb \in LookbackValues, pct \in PercentValues : Settings(lb, pct)

Next == OnMessage \/ SetConfig

Spec == Init /\ [][Next]_vars

----------------------------------------------------------------------------
(* A session left running over midnight: one symbol, ticks 0 or 24 s      *)
(* apart or after a pause of one day less two minutes                      *)

MaxDayCalls == 7
DayJump == DaySeconds - 120
DayMessages == {Tick("X", 100), Tick("X", 101)}
DayDeltas == {0, 24, DayJump}

OnMessageDay ==
    /\ calls < MaxDayCalls
    /\ \E m \in DayMessages, delta \in DayDeltas : OnMessageCall(m, delta)

NextDay == OnMessageDay

SpecDay == Init /\ [][NextDay]_vars

----------------------------------------------------------------------------
(* A long feed for one symbol: a tick every 24 s whose price repeats       *)
(* 10000, 10000, 10100 in its first half and 10000, 9950, 9900 in its      *)
(* second half, so that every third tick is 1 % above, then 1 % below, the *)
(* oldest sample of its window, no other tick reaches 1 % after the turn,  *)
(* and each alert falls in a minute of its own                             *)

MaxFeedCalls == 360
FeedDeltas == {24}
FeedPrice(n) ==
    IF n < MaxFeedCalls \div 2
    THEN (IF n % 3 = 2 THEN 10100 ELSE 10000)
    ELSE (IF n % 3 = 0 THEN 10000 ELSE IF n % 3 = 1 THEN 9950 ELSE 9900)

OnMessageFeed ==
    /\ calls < MaxFeedCalls
    /\ \E delta \in FeedDeltas : OnMessageCall(Tick("X", FeedPrice(calls)), delta)

NextFeed == OnMessageFeed

SpecFeed == Init /\ [][NextFeed]_vars

----------------------------------------------------------------------------
(* The scenario of four ticks for X: prices 100, 100.5, 101.2 and 101.3    *)
(* (in tenths) at 0, 50, 55 and 56 seconds after the first one, under the  *)
(* default lookback of 60 s and threshold of 1.0 %.  The first tick may    *)
(* arrive at any second of the first two minutes of the day.               *)

ScenarioTicks == <<<<0, 1000>>, <<50, 1005>>, <<55, 1012>>, <<56, 1013>>>>
ScenarioStarts == 0..119

InitScenario ==
    /\ clock \in ScenarioStarts
    /\ data = InitData(clock)
    /\ lock = "free"
    /\ pc = "idle"
    /\ message = NoMessage
    /\ lookback = DefaultLookback
    /\ percent = DefaultPercent
    /\ now = clock
    /\ raised = FALSE
    /\ calls = 0
    /\ emitted = <<>>
    /\ ui_pc = "settings"
    /\ threads = <<>>
    /\ held = {<<DefaultLookback, DefaultPercent>>}

\* seconds between the scenario's tick n and the one before it
ScenarioDelta(n) ==
    IF n = 1 THEN 0 ELSE ScenarioTicks[n][1] - ScenarioTicks[n - 1][1]

OnMessageScenario ==
    /\ calls < Len(ScenarioTicks)
    /\ OnMessageCall(Tick("X", ScenarioTicks[calls + 1][2]),
                     ScenarioDelta(calls + 1))

NextScenario == OnMessageScenario

SpecScenario == InitScenario /\ [][NextScenario]_vars

----------------------------------------------------------------------------
(* Two symbols ticking side by side under the default configuration        *)

MaxPairCalls == 6
PairMessages == {Tick(s, p) : s \in Symbols, p \in {100, 101}}

OnMessagePair ==
    /\ calls < MaxPairCalls
    /\ \E m \in PairMessages, delta \in Deltas : OnMessageCall(m, delta)

NextPair == OnMessagePair

SpecPair == Init /\ [][NextPair]_vars

----------------------------------------------------------------------------
(* The same operations statement by statement: the websocket thread runs   *)
(* on_message while the Streamlit script runs in the session's thread.     *)
(* pc and ui_pc name the source line each thread executes next.            *)

MaxConcCalls == 3
ConcMessages == {Tick("X", p) : p \in {0, 100, 101}} \cup {NotADict, NoSymbol, NoPrice("X")}

uiVars == <<ui_pc>>

\* a with block that keeps the lock when its body raises
WithExit_LeakOnFault(holder, faulted) == IF faulted THEN holder ELSE "free"

\* line 64: leaving the with block releases data_lock, on a normal exit and
\* on an exception alike
WithExit(holder, faulted) == "free"

\* the websocket library calls on_message(msg, shared_data), line 123
WsReceive(m) ==
    /\ pc = "idle"
    /\ calls < MaxConcCalls
    /\ calls' = calls + 1
    /\ message' = m
    /\ raised' = FALSE
    /\ pc' = "l54"
    /\ UNCHANGED <<clock, data, lock, lookback, percent, now, emitted, uiVars, appVars>>

\* line 54
WsReadLookback ==
    /\ pc = "l54"
    /\ lookback' = ReadLookback(data)
    /\ pc' = "l55"
    /\ UNCHANGED <<clock, data, lock, message, percent, now, raised, calls,
                   emitted, uiVars, appVars>>

\* line 55
WsReadPercent ==
    /\ pc = "l55"
    /\ percent' = ReadPercent(data)
    /\ pc' = "l57"
    /\ UNCHANGED <<clock, data, lock, message, lookback, now, raised, calls,
                   emitted, uiVars, appVars>>

\* lines 57-62: drop the message, or read the clock
WsCheck(delta) ==
    /\ pc = "l57"
    /\ IF Accepted(message)
       THEN /\ clock' = clock + delta
            /\ now' = clock'
            /\ pc' = "l64"
       ELSE /\ delta = 0
            /\ pc' = "idle"
            /\ UNCHANGED <<clock, now>>
    /\ UNCHANGED <<data, lock, message, lookback, percent, raised, calls,
                   emitted, uiVars, appVars>>

\* the critical section entered without the lock
WsAcquire_NoLock ==
    /\ pc = "l64"
    /\ pc' = "l66"
    /\ UNCHANGED <<clock, data, lock, wsVars, raised, calls, emitted, uiVars,
                   appVars>>

\* line 64: with data_lock
WsAcquire ==
    /\ pc = "l64"
    /\ lock = "free"
    /\ lock' = "ws"
    /\ pc' = "l66"
    /\ UNCHANGED <<clock, data, wsVars, raised, calls, emitted, uiVars, appVars>>

\* lines 66-67
WsAppend ==
    /\ pc = "l66"
    /\ data' = AppendSample(data, message.symbol, message.ltp, now)
    /\ pc' = "l70"
    /\ UNCHANGED <<clock, lock, wsVars, raised, calls, emitted, uiVars, appVars>>

\* lines 70-71
WsTrim ==
    /\ pc = "l70"
    /\ data' = TrimHistory(data, message.symbol, now, lookback)
    /\ pc' = "l74"
    /\ UNCHANGED <<clock, lock, wsVars, raised, calls, emitted, uiVars, appVars>>

\* lines 74-79
WsGate ==
    /\ pc = "l74"
    /\ pc' = IF Evaluates(data, message.symbol, now, lookback) THEN "l80" ELSE "l99"
    /\ UNCHANGED <<clock, data, lock, wsVars, raised, calls, emitted, uiVars, appVars>>

\* lines 80-91: the division, which may raise and leaves the with block,
\* then the dedup test and the threshold tests
WsPercentChange ==
    /\ pc = "l80"
    /\ IF DivisionFaults(StartOf(data, message.symbol)[2])
       THEN /\ raised' = TRUE
            /\ lock' = WithExit(lock, TRUE)
            /\ pc' = "idle"
       ELSE /\ pc' = IF Decision(data, message.symbol, message.ltp, now, percent) = "none"
                     THEN "l99" ELSE "l92"
            /\ UNCHANGED <<raised, lock>>
    /\ UNCHANGED <<clock, data, wsVars, calls, emitted, uiVars, appVars>>

\* line 92 or line 95
WsInsert ==
    /\ pc = "l92"
    /\ LET sym == message.symbol
           pol == Polarity(message.ltp, StartOf(data, sym)[2], percent)
       IN  /\ data' = InsertAlert(data, pol,
                          Alert(sym, message.ltp, StartOf(data, sym)[2], now))
           /\ emitted' = Emit(emitted, sym, now, pol)
    /\ pc' = "l93"
    /\ UNCHANGED <<clock, lock, wsVars, raised, calls, uiVars, appVars>>

\* line 93 or line 96
WsAddInterval ==
    /\ pc = "l93"
    /\ data' = AddInterval(data,
                   Polarity(message.ltp, StartOf(data, message.symbol)[2], percent),
                   message.symbol, now)
    /\ pc' = "l99"
    /\ UNCHANGED <<clock, lock, wsVars, raised, calls, emitted, uiVars, appVars>>

\* line 99
WsTruncatePositive ==
    /\ pc = "l99"
    /\ data' = TruncatePositive(data)
    /\ pc' = "l100"
    /\ UNCHANGED <<clock, lock, wsVars, raised, calls, emitted, uiVars, appVars>>

\* line 100
WsTruncateNegative ==
    /\ pc = "l100"
    /\ data' = TruncateNegative(data)
    /\ pc' = "l101"
    /\ UNCHANGED <<clock, lock, wsVars, raised, calls, emitted, uiVars, appVars>>

\* line 101
WsSetLastUpdate ==
    /\ pc = "l101"
    /\ data' = SetLastUpdate(data, now)
    /\ pc' = "exit"
    /\ UNCHANGED <<clock, lock, wsVars, raised, calls, emitted, uiVars, appVars>>

\* the end of the with block of line 64
WsRelease ==
    /\ pc = "exit"
    /\ lock' = WithExit(lock, FALSE)
    /\ pc' = "idle"
    /\ UNCHANGED <<clock, data, wsVars, raised, calls, emitted, uiVars, appVars>>

WsStep ==
    \/ \E m \in ConcMessages : WsReceive(m)
    \/ WsReadLookback
    \/ WsReadPercent
    \/ \E delta \in Deltas : WsCheck(delta)
    \/ WsAcquire
    \/ WsAppend
    \/ WsTrim
    \/ WsGate
    \/ WsPercentChange
    \/ WsInsert
    \/ WsAddInterval
    \/ WsTruncatePositive
    \/ WsTruncateNegative
    \/ WsSetLastUpdate
    \/ WsRelease

wsAll == <<clock, lock, pc, wsVars, raised, calls, emitted>>

\* lines 137-139: the slider's value is written, no lock
UiSetLookback(lb) ==
    /\ ui_pc = "settings"
    /\ data' = [data EXCEPT !.lookback = lb]
    /\ ui_pc' = "l140"
    /\ UNCHANGED <<wsAll, appVars>>

\* lines 140-142: the number input's value is written, no lock; the script
\* goes on at line next
UiSetPercentTo(pct, next) ==
    /\ ui_pc = "l140"
    /\ data' = [data EXCEPT !.percent = pct]
    /\ ui_pc' = next
    /\ UNCHANGED <<wsAll, appVars>>

\* lines 140-158 of a run in which the Start button is not pressed
UiSetPercent(pct) == UiSetPercentTo(pct, "l162")

\* lines 162-164: connected, symbols_count and last_update are read, no lock
UiReadStatus ==
    /\ ui_pc = "l162"
    /\ ui_pc' = "l172"
    /\ UNCHANGED <<data, wsAll, appVars>>

\* lines 172-173: the positive ledger is read, no lock
UiReadPositive ==
    /\ ui_pc = "l172"
    /\ ui_pc' = "l179"
    /\ UNCHANGED <<data, wsAll, appVars>>

\* lines 179-180: the negative ledger is read, no lock
UiReadNegative ==
    /\ ui_pc = "l179"
    /\ ui_pc' = "l185"
    /\ UNCHANGED <<data, wsAll, appVars>>

\* lines 185-186: sleep, then the script runs again
UiRerun ==
    /\ ui_pc = "l185"
    /\ ui_pc' = "settings"
    /\ UNCHANGED <<data, wsAll, appVars>>

UiStep ==
    \/ \E lb \in LookbackValues : UiSetLookback(lb)
    \/ \E pct \in PercentValues : UiSetPercent(pct)
    \/ UiReadStatus
    \/ UiReadPositive
    \/ UiReadNegative
    \/ UiRerun

NextConc == WsStep \/ UiStep

SpecConc == Init /\ [][NextConc]_vars

----------------------------------------------------------------------------
(* The whole application: the script with its Start button (lines 145-158), *)
(* the thread it starts (start_websocket, lines 104-127) and the callback   *)
(* the thread's socket runs.  data_lock is taken by start_websocket and by  *)
(* on_message only; the script never takes it.                              *)

AppMessages == {Tick("X", p) : p \in {0, 100, 101}}
SymbolCounts == {2}

\* a start that does not look at the flag
MayStart_Always(d) == TRUE

\* line 146
MayStart(d) == ~d.connected

\* line 145: the button was pressed in this run, or not
UiButton(pressed) ==
    /\ ui_pc = "l145"
    /\ ui_pc' = IF pressed THEN "l146" ELSE "l162"
    /\ UNCHANGED <<data, wsAll, appVars>>

\* line 146
UiCheckConnected ==
    /\ ui_pc = "l146"
    /\ ui_pc' = IF MayStart(data) THEN "l149" ELSE "l158"
    /\ UNCHANGED <<data, wsAll, appVars>>

\* lines 149-154: thread.start()
UiStartThread ==
    /\ ui_pc = "l149"
    /\ threads' = Append(threads, "l105")
    /\ ui_pc' = "l155"
    /\ UNCHANGED <<data, wsAll, held>>

\* lines 155-156
UiSetConnected ==
    /\ ui_pc = "l155"
    /\ data' = [data EXCEPT !.connected = TRUE]
    /\ ui_pc' = "l162"
    /\ UNCHANGED <<wsAll, appVars>>

\* line 158
UiAlreadyRunning ==
    /\ ui_pc = "l158"
    /\ ui_pc' = "l162"
    /\ UNCHANGED <<data, wsAll, appVars>>

\* lines 161-182: the status fields and the ledgers are read and drawn, no
\* lock; nothing is written
UiRender ==
    /\ ui_pc = "l162"
    /\ ui_pc' = "l185"
    /\ UNCHANGED <<data, wsAll, appVars>>

UiStepApp ==
    \/ \E lb \in LookbackValues : UiSetLookback(lb)
    \/ \E pct \in PercentValues : UiSetPercentTo(pct, "l145")
    \/ \E pressed \in BOOLEAN : UiButton(pressed)
    \/ UiCheckConnected
    \/ UiStartThread
    \/ UiSetConnected
    \/ UiAlreadyRunning
    \/ UiRender
    \/ UiRerun

\* thread i moves from position from to position to
Goes(i, from, to) ==
    /\ threads[i] = from
    /\ threads' = [threads EXCEPT ![i] = to]

\* line 105: load_watchlist() runs on the thread's own data
SwLoadWatchlist(i) ==
    /\ Goes(i, "l105", "l108")
    /\ UNCHANGED <<clock, data, lock, pc, wsVars, raised, calls, emitted,
                   uiVars, held>>

\* line 108: with data_lock
SwAcquire(i) ==
    /\ lock = "free"
    /\ Goes(i, "l108", "l109")
    /\ lock' = "sw"
    /\ UNCHANGED <<clock, data, pc, wsVars, raised, calls, emitted, uiVars,
                   held>>

\* line 109: len(symbols) is n
SwSetSymbolsCount(i, n) ==
    /\ Goes(i, "l109", "l110")
    /\ data' = [data EXCEPT !.symbols_count = n]
    /\ UNCHANGED <<clock, lock, pc, wsVars, raised, calls, emitted, uiVars,
                   held>>

\* the end of the with block of line 108
SwRelease(i) ==
    /\ Goes(i, "l110", "l111")
    /\ lock' = WithExit(lock, FALSE)
    /\ UNCHANGED <<clock, data, pc, wsVars, raised, calls, emitted, uiVars,
                   held>>

\* lines 111-127: without the token file the thread returns, with it the
\* socket is connected and starts to deliver messages
SwConnect(i, token) ==
    /\ Goes(i, "l111", IF token THEN "l127" ELSE "returned")
    /\ UNCHANGED <<clock, data, lock, pc, wsVars, raised, calls, emitted,
                   uiVars, held>>

SwStep(i) ==
    \/ SwLoadWatchlist(i)
    \/ SwAcquire(i)
    \/ \E n \in SymbolCounts : SwSetSymbolsCount(i, n)
    \/ SwRelease(i)
    \/ \E token \in BOOLEAN : SwConnect(i, token)

SwRun == \E i \in DOMAIN threads : SwStep(i)

\* a thread has reached fyers.connect(), line 127
SocketOpen == \E i \in DOMAIN threads : threads[i] = "l127"

\* line 123: the socket of a connected thread calls on_message
AppReceive(m) == SocketOpen /\ WsReceive(m)

\* on_message from line 54 to its end
WsRun ==
    \/ WsReadLookback
    \/ WsReadPercent
    \/ \E delta \in Deltas : WsCheck(delta)
    \/ WsAcquire
    \/ WsAppend
    \/ WsTrim
    \/ WsGate
    \/ WsPercentChange
    \/ WsInsert
    \/ WsAddInterval
    \/ WsTruncatePositive
    \/ WsTruncateNegative
    \/ WsSetLastUpdate
    \/ WsRelease

WsStepApp == (\E m \in AppMessages : AppReceive(m)) \/ WsRun

NextApp == WsStepApp \/ SwRun \/ UiStepApp

SpecApp == Init /\ [][NextApp]_vars

\* The application in a session whose settings are left alone: the slider
\* and the number input return the values the dictionary holds
UiStepQuiet ==
    \/ \E lb \in {data.lookback} : UiSetLookback(lb)
    \/ \E pct \in {data.percent} : UiSetPercentTo(pct, "l145")
    \/ \E pressed \in BOOLEAN : UiButton(pressed)
    \/ UiCheckConnected
    \/ UiStartThread
    \/ UiSetConnected
    \/ UiAlreadyRunning
    \/ UiRender
    \/ UiRerun

NextQuiet == WsStepApp \/ SwRun \/ UiStepQuiet

SpecQuiet == Init /\ [][NextQuiet]_vars

\* every thread that can take a step eventually takes one
SpecQuietFair == SpecQuiet /\ WF_vars(WsRun) /\ WF_vars(SwRun)

----------------------------------------------------------------------------
(* The configuration's two writes (lines 137-142) against on_message's two  *)
(* reads (lines 54-55), with the pairs the dictionary has held recorded in  *)
(* held; the rest of the call, lines 57-101, is taken as one step           *)

CfgMessages == {Tick("X", 100), Tick("X", 101)}

\* the pair the dictionary d holds
ConfigPair(d) == <<d.lookback, d.percent>>

\* lines 137-139, as UiSetLookback
CfgSetLookback(lb) ==
    /\ ui_pc = "settings"
    /\ data' = [data EXCEPT !.lookback = lb]
    /\ held' = held \cup {ConfigPair(data')}
    /\ ui_pc' = "l140"
    /\ UNCHANGED <<wsAll, threads>>

\* lines 140-142, as UiSetPercent
CfgSetPercent(pct) ==
    /\ ui_pc = "l140"
    /\ data' = [data EXCEPT !.percent = pct]
    /\ held' = held \cup {ConfigPair(data')}
    /\ ui_pc' = "l162"
    /\ UNCHANGED <<wsAll, threads>>

\* lines 57-101 with the lookback and percent read at lines 54-55
WsIngest(delta) ==
    /\ pc = "l57"
    /\ Accepted(message)
    /\ LET t == clock + delta
           r == Ingest(data, message.symbol, message.ltp, t, lookback, percent)
       IN  /\ clock' = t
           /\ now' = t
           /\ data' = r.data
           /\ raised' = r.raised
           /\ emitted' = Emit(emitted, message.symbol, t, r.pol)
    /\ pc' = "idle"
    /\ UNCHANGED <<lock, message, lookback, percent, calls, uiVars, appVars>>

NextCfg ==
    \/ \E m \in CfgMessages : WsReceive(m)
    \/ WsReadLookback
    \/ WsReadPercent
    \/ \E delta \in Deltas : WsIngest(delta)
    \/ \E lb \in LookbackValues : CfgSetLookback(lb)
    \/ \E pct \in PercentValues : CfgSetPercent(pct)
    \/ UiRender
    \/ UiRerun

SpecCfg == Init /\ [][NextCfg]_vars

----------------------------------------------------------------------------
(* Properties *)

Abs(x) == IF x < 0 THEN -x ELSE x
Min(a, b) == IF a <= b THEN a ELSE b

\* the step is one whole on_message call that accepted its message
IngestStep == calls' = calls + 1 /\ Accepted(message')

\* the last on_message call accepted its message
Ingested == calls > 0 /\ Accepted(message)

\* new is old with one alert for (sym, ltp, t) put in front, cut to the cap
Inserted(old, new, sym, ltp, t) ==
    /\ Len(new) = Min(Len(old) + 1, LedgerCap)
    /\ new[1].Symbol = sym
    /\ new[1].LTP = ltp
    /\ new[1].Time = t % DaySeconds
    /\ \A i \in 2..Len(new) : new[i] = old[i - 1]

LedgersKept == data'.positive = data.positive /\ data'.negative = data.negative

\* C1. Window correctness: after on_message has ingested a tick at time now,
\* every sample kept for the tick's symbol has a timestamp >= now - lookback
\* (the lookback that call read), the sample just appended is kept and is the
\* last one, and the samples are in non-decreasing timestamp order.
C1_WindowCorrect ==
    Ingested =>
        LET h == data.history[message.symbol]
        IN  /\ \A i \in 1..Len(h) : h[i][1] >= now - lookback
            /\ Len(h) >= 1
            /\ h[Len(h)] = <<now, message.ltp>>
            /\ \A i, j \in 1..Len(h) : i <= j => h[i][1] <= h[j][1]

\* C1's case: three ticks of X 24 s apart under a lookback of 30 s, the
\* sample of the first of them has left the window
C1_Trimmed ==
    /\ Ingested
    /\ lookback = 30
    /\ clock = 108
    /\ DOMAIN data.history = {"X"}
    /\ Len(data.history["X"]) = 2
    /\ data.history["X"][1][1] = 84

\* C2. Coverage gate: when, after the trim, the oldest kept sample of the
\* tick's symbol is less than 0.8 x lookback older than the tick, the call
\* adds no alert to either ledger and no key to the seen intervals.
C2_CoverageGate ==
    [][ LET h == data'.history[message'.symbol]
        IN  (IngestStep /\ 5 * (now' - h[1][1]) < 4 * lookback')
                => (LedgersKept /\ data'.intervals = data.intervals) ]_vars

\* C2's case: three samples, the oldest too recent, a move that reaches the
\* threshold, and nothing recorded
C2_GateHeld ==
    /\ Ingested
    /\ LET h == data.history[message.symbol]
       IN  /\ Len(h) > 2
           /\ 5 * (now - h[1][1]) < 4 * lookback
           /\ h[1][2] > 0
           /\ (message.ltp - h[1][2]) * 1000 >= percent * h[1][2]
    /\ data.intervals = {}
    /\ data.positive = <<>>
    /\ data.negative = <<>>

\* C3. Threshold boundary: for a tick that passes the 3-sample and coverage
\* gates, whose interval key is not yet seen, with a percentage change
\* (ltp - start) / start x 100 against the oldest kept sample: a change equal
\* to +threshold puts one alert in the positive ledger only, a change equal to
\* -threshold puts one alert in the negative ledger only, a change smaller
\* than the threshold in absolute value puts none; no call changes both.
C3_ThresholdBoundary ==
    [][ LET sym == message'.symbol
            ltp == message'.ltp
            h == data'.history[sym]
            sp == h[1][2]
            gates == /\ IngestStep
                     /\ Len(h) > 2
                     /\ 5 * (now' - h[1][1]) >= 4 * lookback'
                     /\ sp # 0
                     /\ <<sym, (now' \div 60) % 1440>> \notin data.intervals
        IN  /\ (gates /\ (ltp - sp) * 1000 = percent' * sp)
                => /\ Inserted(data.positive, data'.positive, sym, ltp, now')
                   /\ data'.negative = data.negative
            /\ (gates /\ (ltp - sp) * 1000 = (-percent') * sp)
                => /\ Inserted(data.negative, data'.negative, sym, ltp, now')
                   /\ data'.positive = data.positive
            /\ (gates /\ Abs((ltp - sp) * 1000) < percent' * Abs(sp))
                => LedgersKept
            /\ ~(data'.positive # data.positive /\ data'.negative # data.negative)
      ]_vars

\* C3's case: a move of exactly +threshold has put the first alert in the
\* positive ledger
C3_ExactUp ==
    /\ Ingested
    /\ LET h == data.history[message.symbol]
       IN  /\ h[1][2] > 0
           /\ (message.ltp - h[1][2]) * 1000 = percent * h[1][2]
    /\ Len(data.positive) = 1
    /\ data.positive[1].LTP = message.ltp
    /\ data.positive[1].Time = now % DaySeconds
    /\ data.negative = <<>>

\* the call's tick passes the gates of lines 74 and 79 and its change against
\* the oldest kept sample reaches the threshold, up or down
Qualifying ==
    /\ IngestStep
    /\ LET h == data'.history[message'.symbol]
           sp == h[1][2]
       IN  /\ Len(h) > 2
           /\ 5 * (now' - h[1][1]) >= 4 * lookback'
           /\ sp # 0
           /\ Abs((message'.ltp - sp) * 1000) >= percent' * Abs(sp)

AlertAdded == data'.positive # data.positive \/ data'.negative # data.negative

\* an alert for sym was emitted in the wall-clock minute m (minutes since
\* midnight of day 0)
AlertedInMinute(sym, m) ==
    \E i \in 1..Len(emitted) : emitted[i].sym = sym /\ emitted[i].at \div 60 = m

\* an alert for sym was emitted at the hour and minute of t, on any day
AlertedAtTimeOfDay(sym, t) ==
    \E i \in 1..Len(emitted) :
        emitted[i].sym = sym /\ (emitted[i].at \div 60) % 1440 = (t \div 60) % 1440

OnePerMinute ==
    \A i, j \in 1..Len(emitted) :
        (i < j /\ emitted[i].sym = emitted[j].sym)
            => emitted[i].at \div 60 # emitted[j].at \div 60

\* C4 as stated. Dedup per interval: at most one alert is ever emitted per
\* symbol and wall-clock minute, and a qualifying tick in the minute after a
\* minute with an alert for its symbol emits a new alert.
C4_DedupPerMinute ==
    [][ /\ OnePerMinute'
        /\ (/\ Qualifying
            /\ AlertedInMinute(message'.symbol, (now' \div 60) - 1)
            /\ ~AlertedInMinute(message'.symbol, now' \div 60))
                => AlertAdded ]_vars

\* C4 as amended. At most one alert is ever emitted per symbol and wall-clock
\* minute, and a qualifying tick in the minute after a minute with an alert
\* for its symbol emits a new alert unless an alert for that symbol was
\* emitted at the same hour and minute on an earlier day.
C4_DedupPerTimeOfDay ==
    [][ /\ OnePerMinute'
        /\ (/\ Qualifying
            /\ AlertedInMinute(message'.symbol, (now' \div 60) - 1)
            /\ ~AlertedAtTimeOfDay(message'.symbol, now'))
                => AlertAdded ]_vars

\* C4's case: alerts for X at 00:01:48 and 00:02:12, then one more qualifying
\* tick at 00:02:12 that added nothing
C4_NextMinuteAlert ==
    /\ Ingested
    /\ calls = 5
    /\ clock = 132
    /\ Len(emitted) = 2
    /\ emitted[1].at = 108
    /\ emitted[2].at = 132
    /\ Len(data.positive) = 2
    /\ LET h == data.history["X"]
       IN  /\ Len(h) = 4
           /\ (message.ltp - h[1][2]) * 1000 >= percent * h[1][2]

\* ledger holds the n most recent entries of log, newest first (log is oldest
\* first), or all of them when there are fewer
NewestFirst(ledger, log, n) ==
    /\ Len(ledger) = Min(Len(log), n)
    /\ \A i \in 1..Len(ledger) :
        /\ ledger[i].Time = log[Len(log) - i + 1].at % DaySeconds
        /\ ledger[i].Symbol = log[Len(log) - i + 1].sym

\* C5. Ledger cap: after every completed ingest each ledger holds at most 50
\* alerts, newest first, and they are the 50 most recently emitted alerts of
\* its polarity (all of them while there are fewer than 50).
C5_LedgerCap ==
    /\ NewestFirst(data.positive,
                   SelectSeq(emitted, LAMBDA e : e.pol = "positive"), 50)
    /\ NewestFirst(data.negative,
                   SelectSeq(emitted, LAMBDA e : e.pol = "negative"), 50)

\* C5's case: 60 positive alerts, then 60 negative ones, were emitted; 50 of
\* each are left and the oldest positive one left is the 11th emitted
C5_SixtyAlerts ==
    /\ Len(emitted) = 120
    /\ emitted[60].pol = "positive"
    /\ emitted[61].pol = "negative"
    /\ Len(data.positive) = 50
    /\ data.positive[50].Time = emitted[11].at % DaySeconds
    /\ data.positive[1].Time = emitted[60].at % DaySeconds
    /\ Len(data.negative) = 50
    /\ data.negative[50].Time = emitted[71].at % DaySeconds

\* every alert of the ledger has its interval key in the seen set
KeysSeen(ledger) ==
    \A i \in 1..Len(ledger) :
        <<ledger[i].Symbol, ledger[i].Time \div 60>> \in data.intervals

\* what a reader sees between two whole ingests
WholeIngests ==
    /\ Len(data.positive) <= 50
    /\ Len(data.negative) <= 50
    /\ KeysSeen(data.positive)
    /\ KeysSeen(data.negative)
    /\ \A i \in 1..Len(emitted) : emitted[i].at <= data.last_update

\* C6. Concurrent safety: whenever the script reads the shared dictionary
\* (lines 162-180) it sees no partly done ingest: no ledger longer than 50, no
\* alert whose interval key is not yet in the seen set, no alert newer than
\* last_update.
C6_ReaderSeesWholeIngests ==
    [][ (ui_pc \in {"l162", "l172", "l179"} /\ ui_pc' # ui_pc)
            => WholeIngests ]_vars

\* C7. Price validity: a tick with a price <= 0 is a no-op, it changes neither
\* the history nor the ledgers nor the seen set, and no kept sample ever has a
\* price <= 0.
C7_NonPositiveRejected ==
    [][ /\ (IngestStep /\ message'.ltp <= 0)
            => /\ data'.history = data.history
               /\ LedgersKept
               /\ data'.intervals = data.intervals
        /\ \A sym \in DOMAIN data'.history :
            \A i \in 1..Len(data'.history[sym]) : data'.history[sym][i][2] > 0
      ]_vars

\* C8. Dropped frame: a call whose message is not a dict, has no symbol or has
\* no price returns from line 57 or 60; none of its steps changes the shared
\* dictionary (no history entry appears) or takes the lock.
C8_DroppedFrame ==
    [][ /\ (pc \in {"idle", "l54", "l55"} /\ pc' # pc)
            => (data' = data /\ lock' = lock)
        /\ (pc = "l57" /\ pc' # pc /\ ~(message.isdict /\ message.has_symbol
                                         /\ message.has_ltp))
            => (pc' = "idle" /\ data' = data /\ lock' = lock
                /\ emitted' = emitted /\ ~raised')
      ]_vars

\* C8's case: a message for X without a price has been dropped, X has no
\* history entry and the lock is free
C8_Dropped ==
    /\ pc = "idle"
    /\ calls > 0
    /\ message = NoPrice("X")
    /\ DOMAIN data.history = {}
    /\ data.positive = <<>>
    /\ data.negative = <<>>
    /\ data.intervals = {}
    /\ lock = "free"

\* C9. No fault on a zero start price: no call that ingests a tick raises;
\* each one ends with the ledgers cut to 50 and last_update set, and adds no
\* alert when the oldest kept sample's price is <= 0.
C9_NeverFaults ==
    [][ IngestStep =>
            /\ ~raised'
            /\ data'.last_update = now'
            /\ Len(data'.positive) <= 50
            /\ Len(data'.negative) <= 50
            /\ (data'.history[message'.symbol][1][2] <= 0) => LedgersKept
      ]_vars

\* C10. Live configuration: a write of the configuration changes neither the
\* history nor the ledgers nor the seen set, and a call that starts after it
\* reads the written values and uses them for the trim cutoff, the coverage
\* gate and the threshold test: it keeps exactly the samples not older than
\* the written lookback, and it adds an alert exactly when three samples are
\* kept, the oldest is at least 0.8 x that lookback old, its price is not 0,
\* the interval key is new and the change reaches the written threshold.
C10_LiveConfig ==
    [][ /\ (data'.lookback # data.lookback \/ data'.percent # data.percent)
            => /\ data'.history = data.history
               /\ LedgersKept
               /\ data'.intervals = data.intervals
        /\ IngestStep =>
            LET sym == message'.symbol
                ltp == message'.ltp
                old == IF sym \in DOMAIN data.history THEN data.history[sym] ELSE <<>>
                all == Append(old, <<now', ltp>>)
                h == data'.history[sym]
                sp == h[1][2]
            IN  /\ lookback' = data.lookback
                /\ percent' = data.percent
                /\ h = SelectSeq(all, LAMBDA x : x[1] >= now' - data.lookback)
                /\ AlertAdded <=>
                    /\ Len(h) > 2
                    /\ 5 * (now' - h[1][1]) >= 4 * data.lookback
                    /\ sp # 0
                    /\ <<sym, (now' \div 60) % 1440>> \notin data.intervals
                    /\ Abs((ltp - sp) * 1000) >= data.percent * Abs(sp)
      ]_vars

\* C10's case: after the configuration was set to 30 s and 2.0 %, a tick 24 s
\* after the oldest sample raised the first alert
C10_NewConfigUsed ==
    /\ Ingested
    /\ data.lookback = 30
    /\ data.percent = 20
    /\ lookback = 30
    /\ percent = 20
    /\ Len(emitted) = 1
    /\ emitted[1].at = now
    /\ now - data.history[message.symbol][1][1] = 24

\* the time of the scenario's first tick
ScenarioStart == clock - (IF calls = 0 THEN 0 ELSE ScenarioTicks[calls][1])

\* the scenario's four ticks fall in one wall-clock minute
ScenarioInOneMinute == ScenarioStart \div 60 = (ScenarioStart + 56) \div 60

\* C11. Scenario: with lookback 60 s and threshold 1.0 % and all ticks within
\* one wall-clock minute, the ticks for X (t=0, 100), (t=50, 100.5),
\* (t=55, 101.2), (t=56, 101.3) emit no alert at t=0 and t=50, exactly one
\* positive alert at t=55 (move 1.20 %, LTP 101.2) and no further alert at
\* t=56; the negative ledger stays empty throughout.
C11_Scenario ==
    ScenarioInOneMinute =>
        /\ data.negative = <<>>
        /\ ~raised
        /\ calls <= 2 => data.positive = <<>>
        /\ calls >= 3 =>
            data.positive = << [Time |-> (ScenarioStart + 55) % 86400,
                                Symbol |-> "X", Move |-> 120, LTP |-> 1012] >>

\* C11's case: the four ticks have arrived within one minute, the last one
\* qualifies as well, and one alert is in the positive ledger
C11_FourTicks ==
    /\ calls = 4
    /\ ScenarioInOneMinute
    /\ now = ScenarioStart + 56
    /\ Len(data.history["X"]) = 4
    /\ (message.ltp - 1000) * 1000 >= percent * 1000
    /\ Len(data.positive) = 1
    /\ Len(emitted) = 1
    /\ emitted[1].at = ScenarioStart + 55

\* C12. Minimum sample count: when fewer than 3 samples are left for the
\* tick's symbol after the append and the trim, the call adds no alert and no
\* interval key, whatever the elapsed time and the price change; the first
\* tick of a symbol and the first two calls never add an alert.
C12_MinimumSamples ==
    [][ LET sym == message'.symbol
            quiet == LedgersKept /\ data'.intervals = data.intervals
                     /\ emitted' = emitted
        IN  /\ (IngestStep /\ Len(data'.history[sym]) < 3) => quiet
            /\ (IngestStep /\ sym \notin DOMAIN data.history) => quiet
            /\ (IngestStep /\ calls' <= 2) => quiet
      ]_vars

\* C12's case: the second tick of X, 24 s after the first under a lookback of
\* 30 s and 1 % above it, has recorded nothing
C12_TwoSamples ==
    /\ Ingested
    /\ ~raised
    /\ lookback = 30
    /\ LET h == data.history[message.symbol]
       IN  /\ Len(h) = 2
           /\ 5 * (now - h[1][1]) >= 4 * lookback
           /\ h[1][2] > 0
           /\ (message.ltp - h[1][2]) * 1000 >= percent * h[1][2]
    /\ data.positive = <<>>
    /\ data.negative = <<>>
    /\ data.intervals = {}

\* the keys, symbol and minute of the day, of the alerts emitted so far
EmittedKeys ==
    {<<emitted[i].sym, (emitted[i].at \div 60) % 1440>> : i \in 1..Len(emitted)}

\* the call's tick passes the gates of lines 74 and 79 and its change against
\* the oldest kept sample, whose price is not 0, stays below the threshold
EvaluatedBelow ==
    /\ IngestStep
    /\ LET h == data'.history[message'.symbol]
           sp == h[1][2]
       IN  /\ Len(h) > 2
           /\ 5 * (now' - h[1][1]) >= 4 * lookback'
           /\ sp # 0
           /\ Abs((message'.ltp - sp) * 1000) < percent' * Abs(sp)

\* C13. Seen-intervals bookkeeping: over any sequence of ingests the seen set
\* never loses a key; a key of symbol and minute is in it exactly when an
\* alert was emitted for that symbol in that minute; a tick that is evaluated
\* and stays below the threshold adds no key; and the size of the set is the
\* number of alerts ever emitted.
C13_SeenIntervals ==
    [][ /\ data.intervals \subseteq data'.intervals
        /\ data'.intervals = EmittedKeys'
        /\ Cardinality(data'.intervals) = Len(emitted')
        /\ EvaluatedBelow => data'.intervals = data.intervals
      ]_vars

\* C13's case: a tick of X was evaluated at 00:01:48 and stayed below the
\* threshold, a later tick in the same minute raised the alert, and a second
\* alert followed in the next minute: two alerts, two keys
C13_TwoKeys ==
    /\ Ingested
    /\ Len(emitted) = 2
    /\ emitted[1].at = 108
    /\ emitted[2].at = 132
    /\ data.intervals = {<<"X", 1>>, <<"X", 2>>}
    /\ LET h == data.history["X"]
       IN  /\ Len(h) = 4
           /\ h[1] = <<84, 100>>
           /\ h[2] = <<108, 100>>
           /\ h[3] = <<108, 101>>

\* C17. Per-symbol isolation: an ingest of a tick for a symbol changes the
\* history of that symbol only, the history of every other symbol stays as it
\* was (untrimmed), and a qualifying tick emits its alert whenever no alert
\* was emitted for its own symbol at that hour and minute, whatever was
\* emitted for other symbols.
C17_SymbolIsolation ==
    [][ IngestStep =>
            LET sym == message'.symbol
            IN  /\ DOMAIN data'.history = DOMAIN data.history \cup {sym}
                /\ \A s \in DOMAIN data.history \ {sym} :
                        data'.history[s] = data.history[s]
                /\ (Qualifying /\ ~AlertedAtTimeOfDay(sym, now')) => AlertAdded
      ]_vars

\* C17's case: an alert for X and then one for Y in the same minute, while
\* the other symbol's history was left alone
C17_BothAlert ==
    /\ Ingested
    /\ Len(emitted) = 2
    /\ emitted[1].sym = "X"
    /\ emitted[2].sym = "Y"
    /\ emitted[1].at \div 60 = emitted[2].at \div 60
    /\ data.intervals = {<<"X", 1>>, <<"Y", 1>>}
    /\ Len(data.history["X"]) = 3
    /\ Len(data.history["Y"]) = 3

\* C18. Interval key has no date: once an alert was emitted for a symbol at
\* an hour and minute, every later qualifying tick for that symbol whose time
\* of day falls in the same hour and minute emits no alert, also when it
\* arrives a day or more later, in another wall-clock minute.
C18_KeyHasNoDate ==
    [][ (Qualifying /\ AlertedAtTimeOfDay(message'.symbol, now'))
            => (~AlertAdded /\ emitted' = emitted) ]_vars

\* C18's case: an alert for X at 00:01:48 of day 0, and a qualifying tick at
\* 00:01:00 of day 1, a minute without any alert, that added nothing
C18_NextDaySuppressed ==
    /\ Ingested
    /\ now = DaySeconds + 60
    /\ \E i \in 1..Len(emitted) : emitted[i].at = 108
    /\ ~AlertedInMinute("X", now \div 60)
    /\ LET h == data.history["X"]
       IN  /\ Len(h) > 2
           /\ 5 * (now - h[1][1]) >= 4 * lookback
           /\ h[1][2] > 0
           /\ (message.ltp - h[1][2]) * 1000 >= percent * h[1][2]
    /\ \A i \in 1..Len(data.positive) : data.positive[i].Time # 60

\* the websocket callback is inside the with block of line 64
WsInside == pc \in {"l66", "l70", "l74", "l80", "l92", "l93", "l99", "l100",
                    "l101", "exit"}

\* the start_websocket threads inside the with block of line 108
SwInside == {i \in DOMAIN threads : threads[i] \in {"l109", "l110"}}

\* C14. Lock discipline on writes: every step that changes the history map,
\* a ledger, the seen-intervals set or last_update is a step of on_message
\* taken while it holds data_lock; every step that changes symbols_count is a
\* step of a start_websocket thread taken while it holds data_lock; and no
\* two threads are ever inside a data_lock critical section together.
C14_LockDiscipline ==
    [][ /\ (\/ data'.history # data.history
            \/ data'.positive # data.positive
            \/ data'.negative # data.negative
            \/ data'.intervals # data.intervals
            \/ data'.last_update # data.last_update)
                => (lock = "ws" /\ WsInside /\ pc' # pc /\ threads' = threads
                    /\ ui_pc' = ui_pc)
        /\ (data'.symbols_count # data.symbols_count)
                => (lock = "sw" /\ pc' = pc /\ ui_pc' = ui_pc
                    /\ \E i \in SwInside : threads'[i] # threads[i])
        /\ Cardinality(SwInside') + (IF WsInside' THEN 1 ELSE 0) <= 1
        /\ WsInside' => lock' = "ws"
        /\ SwInside' # {} => lock' = "sw"
      ]_vars

\* C14's case: the thread wrote symbols_count under the lock, and on_message
\* holds the lock with an alert inserted, its key not yet recorded and
\* last_update not yet written
C14_BothWriters ==
    /\ data.symbols_count = 2
    /\ threads = <<"l127">>
    /\ lock = "ws"
    /\ pc = "l93"
    /\ Len(data.positive) = 1
    /\ data.intervals = {}
    /\ data.last_update < now

\* a start_websocket thread waits at line 108
SwWaiting == \E i \in DOMAIN threads : threads[i] = "l108"

\* C15. Lock release: when every thread that can run does run, a thread that
\* holds data_lock releases it, whether the ingest added no alert, added one
\* or raised inside the with block, and a thread that waits for data_lock at
\* line 64 or line 108 gets it.
C15_LockReleased ==
    /\ (lock # "free") ~> (lock = "free")
    /\ (pc = "l64") ~> (pc = "l66")
    /\ SwWaiting ~> (SwInside # {})

\* C15's case: the third call raised at line 80 inside the with block, before
\* line 101, and the lock is free again
C15_FreeAfterFault ==
    /\ calls = 3
    /\ raised
    /\ pc = "idle"
    /\ lock = "free"
    /\ threads = <<"l127">>
    /\ Len(data.history["X"]) = 3
    /\ data.history["X"][1][2] = 0
    /\ data.last_update < now

\* C16. Single writer: over any sequence of script runs and Start presses at
\* most one start_websocket thread is ever started; a thread is started only
\* by line 154 with connected false, the script then sets connected, and
\* connected is never reset, also when the thread returned for want of the
\* token file, so that a later press starts nothing.
C16_SingleWriter ==
    [][ /\ Len(threads') <= 1
        /\ Len(threads') # Len(threads)
            => (~data.connected /\ ui_pc = "l149" /\ ui_pc' = "l155"
                /\ threads' = Append(threads, "l105"))
        /\ (ui_pc = "l155" /\ ui_pc' # ui_pc) => data'.connected
        /\ data.connected => data'.connected
        /\ data.connected => Len(threads') = Len(threads)
      ]_vars

\* C16's case: the one thread returned at line 113, connected stayed true and
\* a later press of Start came to line 158
C16_PressAfterReturn ==
    /\ threads = <<"returned">>
    /\ data.connected
    /\ ui_pc = "l158"
    /\ lock = "free"
    /\ calls = 0

\* C19. Consistent configuration per tick: under every interleaving of the
\* script's two writes, lookback then percent, with on_message's two reads,
\* lookback then percent, the pair a call evaluates its tick with is a pair
\* the dictionary held at one instant, never the old value of one field with
\* the new value of the other.
C19_ConsistentPair == pc = "l57" => <<lookback, percent>> \in held

====
